---- MODULE Spec2Model ----
(***************************************************************************)
(* A model of NGS/HiCTools.py: the Hi-C helper functions getExpected,      *)
(* assignRegions2d, doPileupObsExp, doPileupICCF, slidingDiamond,          *)
(* downSamplePairs, pileToFrame and getPairingScore.                       *)
(*                                                                         *)
(* Each function is modelled as its own state machine over its own group   *)
(* of variables; a specification SpecX runs one function from every input  *)
(* in a bounded set and leaves the other groups at their idle value.       *)
(* Arrays and data-frame columns are 1-based sequences here; the source is *)
(* 0-based, so source index i is model index i + 1.                        *)
(***************************************************************************)
EXTENDS Integers, Sequences, FiniteSets, TLC

VARIABLES
    \* pileToFrame
    fPile,      \* the argument pile[i][j][k], shape [W, W, N]
    fTable,     \* the returned frame, a sequence of rows; <<>> before the call
    fPc,        \* "call" | "done"
    \* slidingDiamond
    dArray,     \* the caller's matrix (numpy passes it by reference)
    dOrig,      \* ghost: the matrix as it was when the call was made
    dSideLen,   \* the sideLen argument
    dI,         \* the loop variable i
    dDiamond,   \* diamondAccumulator
    dBins,      \* binAccumulator, in half-bin units (twice the source value)
    dRet,       \* the returned pair [offsets, values]; offsets in half-bin units
    dPc,        \* "loop" | "done"
    \* downSamplePairs
    sDict,      \* the caller's sampleDict: sample -> [cis, trans] tables
    sOrig,      \* ghost: sampleDict as it was when the call was made
    sDistance,  \* the Distance argument
    sOut,       \* outDict: sample -> the keys set so far ("all", "cis", "trans")
    sTodo,      \* the samples the running loop has still to visit, in order
    sMinReads,  \* minReads; -1 before it is computed
    sPc,        \* "filter" | "min" | "sample" | "done" | "raised"
    \* assignRegions2d
    rWindows1,  \* assignRegions(..., chroms1, positions1, arms)
    rWindows2,  \* assignRegions(..., chroms2, positions2, arms)
    rRet,       \* the returned frame windowsSmall
    rPc,        \* "call" | "done"
    \* the pooled operations getExpected, doPileupICCF, doPileupObsExp
    pOp,        \* the operation called
    pWindows,   \* snipping_windows (the arms, for getExpected), in input order
    pCollapse,  \* the collapse argument
    pProc,      \* the proc argument: the number of pool workers
    pTasks,     \* the work items handed to pool.map, in order
    pState,     \* per work item: "queued" | "running" | "ok" | "failed"
    pWorker,    \* per worker: the item it runs, 0 when it has none
    pValues,    \* per work item: its result, once "ok"
    pRet,       \* what the call returned; None when nothing was returned
    pPc,        \* "map" | "returned" | "raised"
    \* getPairingScore
    gInput,     \* ghost: the regions frame the call starts from
    gRegions,   \* the regions frame
    gAssigned,  \* the region cooltools will assign to the window of each anchor
    gFunc,      \* the func argument
    gNorm,      \* the norm argument
    gWindows,   \* the windows frame
    gSummary,   \* the series summarized
    gOutput,    \* the output frame
    gPc         \* "regions" | "windows" | "pile" | "merge" | "assign" | "norm"
                \* | "done" | "raised"

frameVars == <<fPile, fTable, fPc>>
diamondVars == <<dArray, dOrig, dSideLen, dI, dDiamond, dBins, dRet, dPc>>
downVars == <<sDict, sOrig, sDistance, sOut, sTodo, sMinReads, sPc>>
regionVars == <<rWindows1, rWindows2, rRet, rPc>>
poolVars == <<pOp, pWindows, pCollapse, pProc, pTasks, pState, pWorker,
              pValues, pRet, pPc>>
scoreVars == <<gInput, gRegions, gAssigned, gFunc, gNorm, gWindows, gSummary,
               gOutput, gPc>>
vars == <<frameVars, diamondVars, downVars, regionVars, poolVars, scoreVars>>

\* What an action of one function leaves alone: the other functions' variables.
exceptFrame == <<diamondVars, downVars, regionVars, poolVars, scoreVars>>
exceptDiamond == <<frameVars, downVars, regionVars, poolVars, scoreVars>>
exceptDown == <<frameVars, diamondVars, regionVars, poolVars, scoreVars>>
exceptRegion == <<frameVars, diamondVars, downVars, poolVars, scoreVars>>
exceptPool == <<frameVars, diamondVars, downVars, regionVars, scoreVars>>
exceptScore == <<frameVars, diamondVars, downVars, regionVars, poolVars>>

-----------------------------------------------------------------------------
(* Bounds of the model. *)

MaxW == 2          \* largest window side of a pile
MaxN == 3          \* largest number of windows in a pile
MaxMarked == 2     \* largest number of non-zero cells of an input pile
MaxRows == 3       \* largest number of rows of a slidingDiamond matrix
MaxSideLen == 5    \* largest sideLen passed to slidingDiamond
MaxSpecial == 2    \* largest number of NaN / Infinity cells of a matrix
MaxPairs == 2      \* largest number of read pairs in one cis or trans table
MaxReads == 3      \* largest number of read pairs in a whole sampleDict
MaxAnchors == 2    \* largest number of anchors in one set of assignRegions2d
MaxWindows == 3    \* largest number of snipping windows (or arms) of a pooled call
MaxProc == 2       \* largest proc: the number of workers of a pool
SnipW == 2         \* the side, in bins, of the sub-matrix of a window
MaxRegions == 3    \* largest number of rows of the regions of getPairingScore

-----------------------------------------------------------------------------
(* Helpers. *)

RECURSIVE SumSeq(_)
SumSeq(s) == IF s = <<>> THEN 0 ELSE Head(s) + SumSeq(Tail(s))

-----------------------------------------------------------------------------
(* pileToFrame: pd.DataFrame(pile.flatten().reshape(W**2, N)).transpose() *)

\* ndarray.flatten() of a 3-d array: C order, the last axis varies fastest.
Flatten3(p) ==
    LET d1 == Len(p)
        d2 == Len(p[1])
        d3 == Len(p[1][1])
    IN  [x \in 1..(d1 * d2 * d3) |->
            p[((x - 1) \div (d2 * d3)) + 1]
             [(((x - 1) \div d3) % d2) + 1]
             [((x - 1) % d3) + 1]]

\* ndarray.reshape(rows, cols) of a flat array: C order, row after row.
Reshape2(flat, rows, cols) ==
    [r \in 1..rows |-> [c \in 1..cols |-> flat[(r - 1) * cols + c]]]

\* DataFrame.transpose(): rows become columns.
Transpose(m) ==
    [c \in 1..Len(m[1]) |-> [r \in 1..Len(m) |-> m[r][c]]]

\* A faulty variant: reshape straight to (N, W*W) and skip the transpose.
ReshapeNoTranspose(pile) ==
    Reshape2(Flatten3(pile), Len(pile[1][1]), Len(pile) * Len(pile))

pileToFrame(pile) ==
    Transpose(Reshape2(Flatten3(pile), Len(pile) * Len(pile), Len(pile[1][1])))

\* The cells of a [w, w, n] pile.
Cells(w, n) == (1..w) \X (1..w) \X (1..n)

\* Input piles: zero everywhere except on a set of at most MaxMarked cells,
\* each marked cell holding a positive value of its own.
PileOf(w, n, marked) ==
    [i \in 1..w |-> [j \in 1..w |-> [k \in 1..n |->
        IF <<i, j, k>> \in marked THEN (i - 1) * w * n + (j - 1) * n + k ELSE 0]]]

FrameIdle ==
    /\ fPile = <<>>
    /\ fTable = <<>>
    /\ fPc = "idle"

FrameInit ==
    /\ \E w \in 1..MaxW, n \in 1..MaxN :
         \E m \in 0..MaxMarked :
            \E picks \in [1..m -> Cells(w, n)] :
               fPile = PileOf(w, n, {picks[x] : x \in 1..m})
    /\ fTable = <<>>
    /\ fPc = "call"

PileToFrame ==
    /\ fPc = "call"
    /\ fTable' = pileToFrame(fPile)
    /\ fPc' = "done"
    /\ UNCHANGED <<fPile, exceptFrame>>

-----------------------------------------------------------------------------
(* slidingDiamond *)

\* A float cell: a finite number, NaN, +Infinity or -Infinity.
Num(v) == [kind |-> "num", val |-> v]
NaN == [kind |-> "nan", val |-> 0]
PosInf == [kind |-> "inf", val |-> 1]
NegInf == [kind |-> "inf", val |-> 0 - 1]

isinf(c) == c.kind = "inf"
isnan(c) == c.kind = "nan"

\* A mean of finite cells, kept exact as the pair sum / cnt.
Ratio(s, n) == [kind |-> "ratio", sum |-> s, cnt |-> n]

\* The index set of the slice [i : (i + halfWindow) + 1] of an axis of length
\* len (0-based, as in the source; numpy clips a slice at the end of the axis).
Slice(i, halfWindow, len) == {x \in i..(i + halfWindow) : x < len}

\* The cells of the view array[i:(i+h)+1, i:(i+h)+1], as (row, col) 0-based.
DiamondCells(a, i, h) == Slice(i, h, Len(a)) \X Slice(i, h, Len(a[1]))

RECURSIVE SumCells(_, _)
SumCells(a, cells) ==
    IF cells = {} THEN 0
    ELSE LET c == CHOOSE x \in cells : TRUE
         IN  a[c[1] + 1][c[2] + 1].val + SumCells(a, cells \ {c})

\* np.nanmean over the cells `cells` of a: NaN cells are left out; what is
\* left is averaged in IEEE arithmetic, so a remaining Infinity decides it.
nanmean(a, cells) ==
    LET kept == {c \in cells : ~isnan(a[c[1] + 1][c[2] + 1])}
        pos == {c \in kept : a[c[1] + 1][c[2] + 1] = PosInf}
        neg == {c \in kept : a[c[1] + 1][c[2] + 1] = NegInf}
    IN  IF kept = {} THEN NaN
        ELSE IF pos # {} /\ neg # {} THEN NaN
        ELSE IF pos # {} THEN PosInf
        ELSE IF neg # {} THEN NegInf
        ELSE Ratio(SumCells(a, kept), Cardinality(kept))

\* A faulty variant: the Infinity cells are left as they are.
KeepInf(a, cells) == a

\* diamondArray[np.isinf(diamondArray)] = np.nan, written through the view
\* into the array the view was sliced from.
InfToNan(a, cells) ==
    [r \in 1..Len(a) |-> [c \in 1..Len(a[r]) |->
        IF <<r - 1, c - 1>> \in cells /\ isinf(a[r][c]) THEN NaN ELSE a[r][c]]]

\* np.mean(range(i, (i + halfWindow) + 1)) in half-bin units: twice the mean.
\* The sum of h + 1 consecutive integers from i is (h + 1)(2i + h) / 2, so the
\* division is exact.
MeanRange2(i, h) ==
    (2 * SumSeq([x \in 1..(h + 1) |-> i + x - 1])) \div (h + 1)

\* The k-th smallest element of s (1-based), as np.median finds it by sorting.
KthSmallest(s, k) ==
    CHOOSE v \in {s[x] : x \in 1..Len(s)} :
        /\ Cardinality({x \in 1..Len(s) : s[x] < v}) < k
        /\ Cardinality({x \in 1..Len(s) : s[x] <= v}) >= k

\* np.median of a non-empty sequence, in the units of the sequence: the middle
\* element, or the mean of the two middle elements (whose sum is even here:
\* consecutive entries of binAccumulator differ by one bin, two half-bins).
median(s) ==
    LET n == Len(s)
    IN  IF n % 2 = 1 THEN KthSmallest(s, (n + 1) \div 2)
        ELSE (KthSmallest(s, n \div 2) + KthSmallest(s, (n \div 2) + 1)) \div 2

\* binAccumulator - np.median(binAccumulator); an empty list stays empty.
Recentre(s) ==
    IF s = <<>> THEN <<>> ELSE [x \in 1..Len(s) |-> s[x] - median(s)]

halfWindow == dSideLen \div 2

\* Input matrices: square, finite everywhere except on at most MaxSpecial cells.
MatrixOf(r, special) ==
    [i \in 1..r |-> [j \in 1..r |->
        IF <<i, j>> \in DOMAIN special THEN special[<<i, j>>]
        ELSE Num(i + 2 * j)]]

DiamondIdle ==
    /\ dArray = <<>>
    /\ dOrig = <<>>
    /\ dSideLen = 0
    /\ dI = 0
    /\ dDiamond = <<>>
    /\ dBins = <<>>
    /\ dRet = <<>>
    /\ dPc = "idle"

DiamondInit ==
    /\ \E r \in 1..MaxRows :
         \E where \in SUBSET ((1..r) \X (1..r)) :
            /\ Cardinality(where) <= MaxSpecial
            /\ \E special \in [where -> {NaN, PosInf, NegInf}] :
                  dArray = MatrixOf(r, special)
    /\ dOrig = dArray
    /\ dSideLen \in 0..MaxSideLen
    /\ dI = 0
    /\ dDiamond = <<>>
    /\ dBins = <<>>
    /\ dRet = <<>>
    /\ dPc = "loop"

\* One iteration of `for i in range(0, array.shape[0] - halfWindow)`.
DiamondStep ==
    /\ dPc = "loop"
    /\ dI < Len(dArray) - halfWindow
    /\ LET cells == DiamondCells(dArray, dI, halfWindow)
           written == InfToNan(dArray, cells)
       IN  /\ dArray' = written
           /\ dDiamond' = Append(dDiamond, nanmean(written, cells))
    /\ dBins' = Append(dBins, MeanRange2(dI, halfWindow))
    /\ dI' = dI + 1
    /\ UNCHANGED <<dOrig, dSideLen, dRet, dPc, exceptDiamond>>

\* The loop is over: return (offsets, values).
DiamondReturn ==
    /\ dPc = "loop"
    /\ dI >= Len(dArray) - halfWindow
    /\ dRet' = [offsets |-> Recentre(dBins), values |-> dDiamond]
    /\ dPc' = "done"
    /\ UNCHANGED <<dArray, dOrig, dSideLen, dI, dDiamond, dBins, exceptDiamond>>

-----------------------------------------------------------------------------
(* downSamplePairs *)

\* The keys a sampleDict may hold, in insertion order, the coordinates a read
\* may have and the values of Distance; sampleDict holds a prefix of the keys.
SampleNames == <<"A", "B">>
Positions == {0, 1}
Distances == {0, 1}

\* A table of read pairs: its columns, and its rows in order.  A row carries
\* its index label idx and the cells pos1, pos2 and rType; rType is "-" while
\* the table has no such column.
Row(i, p1, p2) == [idx |-> i, pos1 |-> p1, pos2 |-> p2, rType |-> "-"]

TableOf(pairs) ==
    [columns |-> <<"pos1", "pos2">>,
     rows |-> [i \in 1..Len(pairs) |-> Row(i - 1, pairs[i][1], pairs[i][2])]]

\* frame["rType"] = tag: the column is added to (or overwritten in) the frame
\* itself, which is the caller's table.
SetRType(t, tag) ==
    [columns |-> IF \E c \in 1..Len(t.columns) : t.columns[c] = "rType"
                 THEN t.columns ELSE Append(t.columns, "rType"),
     rows |-> [i \in 1..Len(t.rows) |-> [t.rows[i] EXCEPT !.rType = tag]]]

\* pd.concat((a, b)): the rows of a, then the rows of b, index labels kept.
Concat(a, b) == [columns |-> a.columns, rows |-> a.rows \o b.rows]

\* A read pair whose two positions are more than distance apart.
PassesAbs(row, distance) ==
    IF row.pos2 >= row.pos1 THEN row.pos2 - row.pos1 > distance
    ELSE row.pos1 - row.pos2 > distance

\* The mask (all["pos2"] - all["pos1"]) > Distance.
PassesDistance(row, distance) == row.pos2 - row.pos1 > distance

DistanceFilter(t, distance) ==
    [t EXCEPT !.rows = SelectSeq(t.rows, LAMBDA r : PassesDistance(r, distance))]

\* A faulty variant: the split keeps every sampled row, whatever its tag.
SplitAll(t, tag) == t

\* all.loc[all["rType"] == tag, :]
SplitByType(t, tag) ==
    [t EXCEPT !.rows = SelectSeq(t.rows, LAMBDA r : r.rType = tag)]

\* min([len(i["all"]) for i in outDict.values()])
MinLen(out) ==
    CHOOSE m \in {Len(out[k]["all"].rows) : k \in DOMAIN out} :
        \A k \in DOMAIN out : m <= Len(out[k]["all"].rows)

\* The draws DataFrame.sample(n) can make from a frame of len rows: n row
\* positions, no position twice, in any order.
Draws(len, n) ==
    {d \in [1..n -> 1..len] : \A x, y \in 1..n : x # y => d[x] # d[y]}

TakeRows(t, d) == [t EXCEPT !.rows = [x \in 1..Len(d) |-> t.rows[d[x]]]]

SeqRange(q) == {q[x] : x \in 1..Len(q)}

\* The tables of a sampleDict with the keys names: slot <<name, tag>>.
Slots(names) == SeqRange(names) \X {"cis", "trans"}

DownIdle ==
    /\ sDict = <<>>
    /\ sOrig = <<>>
    /\ sDistance = 0
    /\ sOut = <<>>
    /\ sTodo = <<>>
    /\ sMinReads = 0 - 1
    /\ sPc = "idle"

DownInit ==
    /\ \E n \in 0..Len(SampleNames) :
         LET names == SubSeq(SampleNames, 1, n)
         IN  /\ \E lens \in [Slots(names) -> 0..MaxPairs] :
                  LET total == SumSeq([x \in 1..n |->
                                 lens[<<names[x], "cis">>]
                                 + lens[<<names[x], "trans">>]])
                      cells == {c \in Slots(names) \X (1..MaxPairs) :
                                  c[2] <= lens[c[1]]}
                  IN  /\ total <= MaxReads
                      /\ \E fill \in [cells -> Positions \X Positions] :
                            sDict = [k \in SeqRange(names) |->
                              [tag \in {"cis", "trans"} |->
                                TableOf([i \in 1..lens[<<k, tag>>] |->
                                           fill[<<<<k, tag>>, i>>]])]]
             /\ sOut = [k \in SeqRange(names) |-> <<>>]
             /\ sTodo = names
    /\ sOrig = sDict
    /\ sDistance \in Distances
    /\ sMinReads = 0 - 1
    /\ sPc = "filter"

\* One iteration of the first loop: tag the two tables of the sample,
\* concatenate them and filter the concatenation on distance.
DownFilter ==
    /\ sPc = "filter"
    /\ sTodo # <<>>
    /\ LET sample == Head(sTodo)
           cisTemp == SetRType(sDict[sample]["cis"], "cis")
           transTemp == SetRType(sDict[sample]["trans"], "trans")
       IN  /\ sDict' = [sDict EXCEPT ![sample] =
                          [tag \in {"cis", "trans"} |->
                             IF tag = "cis" THEN cisTemp ELSE transTemp]]
           /\ sOut' = [sOut EXCEPT ![sample] =
                         [k \in {"all"} |->
                            DistanceFilter(Concat(cisTemp, transTemp), sDistance)]]
    /\ sTodo' = Tail(sTodo)
    /\ UNCHANGED <<sOrig, sDistance, sMinReads, sPc, exceptDown>>

\* minReads = min([...]) over a non-empty outDict.
DownMin ==
    /\ sPc = "filter"
    /\ sTodo = <<>>
    /\ DOMAIN sOut # {}
    /\ sMinReads' = MinLen(sOut)
    /\ sTodo' = SubSeq(SampleNames, 1, Cardinality(DOMAIN sOut))
    /\ sPc' = "sample"
    /\ UNCHANGED <<sDict, sOrig, sDistance, sOut, exceptDown>>

\* min() of an empty list raises ValueError.
DownMinRaises ==
    /\ sPc = "filter"
    /\ sTodo = <<>>
    /\ DOMAIN sOut = {}
    /\ sPc' = "raised"
    /\ UNCHANGED <<sDict, sOrig, sDistance, sOut, sTodo, sMinReads, exceptDown>>

\* One iteration of the second loop: draw minReads rows, split them by rType
\* and drop the key "all".
DownSample ==
    /\ sPc = "sample"
    /\ sTodo # <<>>
    /\ LET sample == Head(sTodo)
           all == sOut[sample]["all"]
       IN  \E d \in Draws(Len(all.rows), sMinReads) :
              LET drawn == TakeRows(all, d)
              IN  sOut' = [sOut EXCEPT ![sample] =
                            [k \in {"cis", "trans"} |-> SplitByType(drawn, k)]]
    /\ sTodo' = Tail(sTodo)
    /\ UNCHANGED <<sDict, sOrig, sDistance, sMinReads, sPc, exceptDown>>

\* return outDict
DownReturn ==
    /\ sPc = "sample"
    /\ sTodo = <<>>
    /\ sPc' = "done"
    /\ UNCHANGED <<sDict, sOrig, sDistance, sOut, sTodo, sMinReads, exceptDown>>

-----------------------------------------------------------------------------
(* assignRegions2d *)

\* The missing value of a frame cell (pandas' NaN / None).
Null == "NaN"

\* The regions (chromosome arms) a window can be assigned, and the window
\* starts of the model; a window spans WindowSpan(start).
ArmNames == {"p", "q"}
Starts == {0, 2}
WindowSpan(start) == start + 2

\* A row of the frame assignRegions returns: a bin-aligned window and the
\* region cooltools assigned it, Null when it assigned none.
Window1d(c, s, r) == [chrom |-> c, start |-> s, end |-> WindowSpan(s), region |-> r]

Windows1d == {Window1d("chr1", s, r) : s \in Starts, r \in ArmNames \cup {Null}}

\* A row of all-missing cells, for an index label one frame lacks.
NullWindow == [chrom |-> Null, start |-> Null, end |-> Null, region |-> Null]

\* pd.concat((windows1, windows2), axis=1): the rows are matched on their index
\* label (both frames carry 0..n-1), a label one frame lacks gets missing cells.
ConcatColumns(w1, w2) ==
    LET n == IF Len(w1) >= Len(w2) THEN Len(w1) ELSE Len(w2)
    IN  [i \in 1..n |->
            LET a == IF i <= Len(w1) THEN w1[i] ELSE NullWindow
                b == IF i <= Len(w2) THEN w2[i] ELSE NullWindow
            IN  [index |-> i - 1,
                 chrom1 |-> a.chrom, start1 |-> a.start, end1 |-> a.end,
                 region1 |-> a.region,
                 chrom2 |-> b.chrom, start2 |-> b.start, end2 |-> b.end,
                 region2 |-> b.region]]

\* A faulty variant: a missing value equals a missing value.
PlainEq(a, b) == a = b

\* Series == Series, element by element: a comparison with a missing value
\* is False, also when both sides are missing.
SeriesEq(a, b) == a # Null /\ b # Null /\ a = b

\* windowsFinal[[...the six coordinates..., "region1"]] with region1 renamed.
Subset2d(row) ==
    [index |-> row.index,
     chrom1 |-> row.chrom1, start1 |-> row.start1, end1 |-> row.end1,
     chrom2 |-> row.chrom2, start2 |-> row.start2, end2 |-> row.end2,
     region |-> row.region1]

assignRegions2d(windows1, windows2) ==
    LET windows == ConcatColumns(windows1, windows2)
        windowsFinal == SelectSeq(windows,
                            LAMBDA row : SeriesEq(row.region1, row.region2))
    IN  [i \in 1..Len(windowsFinal) |-> Subset2d(windowsFinal[i])]

RegionIdle ==
    /\ rWindows1 = <<>>
    /\ rWindows2 = <<>>
    /\ rRet = <<>>
    /\ rPc = "idle"

RegionInit ==
    /\ \E n \in 0..MaxAnchors : rWindows1 \in [1..n -> Windows1d]
    /\ \E n \in 0..MaxAnchors : rWindows2 \in [1..n -> Windows1d]
    /\ rRet = <<>>
    /\ rPc = "call"

AssignRegions2d ==
    /\ rPc = "call"
    /\ rRet' = assignRegions2d(rWindows1, rWindows2)
    /\ rPc' = "done"
    /\ UNCHANGED <<rWindows1, rWindows2, exceptRegion>>

-----------------------------------------------------------------------------
(* getExpected, doPileupObsExp, doPileupICCF: the work goes through pool.map *)

PooledOps == {"getExpected", "doPileupObsExp", "doPileupICCF"}
PoolRegions == {"a", "b", "c"}

\* The contact source: the value the snipper of `op` reads for pixel (i, j),
\* 0-based, of the window starting at bin `start`.  The values only have to
\* tell the windows, the pixels and the two snippers apart.
Pixel(op, start, i, j) ==
    (IF op = "doPileupObsExp" THEN 100 ELSE 0) + 10 * start + SnipW * i + j

\* snipper.snip for one window: its SnipW x SnipW sub-matrix.
Snip(op, window) ==
    [i \in 1..SnipW |-> [j \in 1..SnipW |->
        Pixel(op, window.start, i - 1, j - 1)]]

RECURSIVE FirstSeen(_, _)
\* The regions of the windows in order of first appearance:
\* the keys of features.groupby("region", sort=False).
FirstSeen(windows, seen) ==
    IF windows = <<>> THEN <<>>
    ELSE IF Head(windows).region \in seen THEN FirstSeen(Tail(windows), seen)
    ELSE <<Head(windows).region>>
         \o FirstSeen(Tail(windows), seen \cup {Head(windows).region})

\* The positions 1..n of a sequence, as a sequence.
Ranks(n) == [k \in 1..n |-> k]

\* The work items pool.map is given.  A pileup hands over one item per region,
\* holding the ranks (features["_rank"], here 1-based) of the region's windows
\* in input order; getExpected hands over one item per arm.
WorkItems(op, windows) ==
    IF op = "getExpected"
    THEN [k \in 1..Len(windows) |-> [region |-> windows[k].region, ranks |-> <<k>>]]
    ELSE LET keys == FirstSeen(windows, {})
         IN  [g \in 1..Len(keys) |->
                [region |-> keys[g],
                 ranks |-> SelectSeq(Ranks(Len(windows)),
                              LAMBDA k : windows[k].region = keys[g])]]

\* The slot of a work item that has produced nothing.
NoValue == [stack |-> <<>>, rank |-> <<>>]

\* What a worker returns for a work item: the stack of the sub-matrices of
\* its windows and their ranks (for getExpected: the sums of the arm).
WorkValue(op, item, windows) ==
    [stack |-> [x \in 1..Len(item.ranks) |-> Snip(op, windows[item.ranks[x]])],
     rank |-> item.ranks]

RECURSIVE ConcatAll(_)
ConcatAll(seqs) ==
    IF seqs = <<>> THEN <<>> ELSE Head(seqs) \o ConcatAll(Tail(seqs))

\* np.argsort of distinct ranks: idx[x] is the position of the x-th smallest.
Argsort(ranks) ==
    [x \in 1..Len(ranks) |->
        CHOOSE q \in 1..Len(ranks) :
            Cardinality({y \in 1..Len(ranks) : ranks[y] < ranks[q]}) = x - 1]

\* A faulty variant: the stack is left in the order the regions were processed in.
KeepGroupOrder(stack, ranks) == stack

\* cumul_stack[:, :, np.argsort(orig_rank)]: the input order restored.
RestoreRank(stack, ranks) ==
    [x \in 1..Len(stack) |-> stack[Argsort(ranks)[x]]]

\* np.dstack of a list of W x W matrices: the array [i][j][k].
Dstack(mats) ==
    [i \in 1..SnipW |-> [j \in 1..SnipW |-> [k \in 1..Len(mats) |-> mats[k][i][j]]]]

\* cooltools.snipping.pileup once pool.map has returned `values`, in the
\* order of the work items.
PileOfValues(values) ==
    LET gathered == SelectSeq(values, LAMBDA v : v # NoValue)
        stack == ConcatAll([g \in 1..Len(gathered) |-> gathered[g].stack])
        rank == ConcatAll([g \in 1..Len(gathered) |-> gathered[g].rank])
    IN  Dstack(RestoreRank(stack, rank))

\* np.nanmean(pile, axis=2): the mean over the windows, pixel by pixel.
Collapse(pile) ==
    [i \in 1..Len(pile) |-> [j \in 1..Len(pile[i]) |->
        Ratio(SumSeq(pile[i][j]), Len(pile[i][j]))]]

\* What the call returns once pool.map has returned.
NoReturn == [kind |-> "none"]

ReturnValue(op, collapse, values) ==
    IF op = "getExpected"
    THEN [kind |-> "expected",
          table |-> SelectSeq(values, LAMBDA v : v # NoValue)]
    ELSE IF collapse
    THEN [kind |-> "collapsed", pile |-> Collapse(PileOfValues(values))]
    ELSE [kind |-> "pile", pile |-> PileOfValues(values)]

\* A faulty variant: pool.map returns what the items that succeeded produced.
IgnoreFailures(states) ==
    IF \A t \in 1..Len(states) : states[t] \in {"ok", "failed"}
    THEN "return" ELSE "wait"

\* pool.map, seen from the caller: it re-raises the exception of a work item
\* that raised, and returns the list of results when every item has one.
MapOutcome(states) ==
    IF \E t \in 1..Len(states) : states[t] = "failed" THEN "raise"
    ELSE IF \A t \in 1..Len(states) : states[t] = "ok" THEN "return"
    ELSE "wait"

PoolIdle ==
    /\ pOp = "idle"
    /\ pWindows = <<>>
    /\ pCollapse = FALSE
    /\ pProc = 0
    /\ pTasks = <<>>
    /\ pState = <<>>
    /\ pWorker = <<>>
    /\ pValues = <<>>
    /\ pRet = NoReturn
    /\ pPc = "idle"

PoolInit ==
    /\ pOp \in PooledOps
    /\ \E n \in 0..MaxWindows :
         \E regions \in [1..n -> PoolRegions] :
            pWindows = [k \in 1..n |-> [region |-> regions[k], start |-> k - 1]]
    /\ pCollapse \in (IF pOp = "getExpected" THEN {FALSE} ELSE BOOLEAN)
    /\ pProc \in 1..MaxProc
    /\ pTasks = WorkItems(pOp, pWindows)
    /\ pState = [t \in 1..Len(pTasks) |-> "queued"]
    /\ pWorker = [w \in 1..pProc |-> 0]
    /\ pValues = [t \in 1..Len(pTasks) |-> NoValue]
    /\ pRet = NoReturn
    /\ pPc = "map"

\* An idle worker takes the first work item still in the task queue.
WorkerStart(w) ==
    /\ pPc = "map"
    /\ pWorker[w] = 0
    /\ \E t \in 1..Len(pTasks) :
          /\ pState[t] = "queued"
          /\ \A u \in 1..(t - 1) : pState[u] # "queued"
          /\ pState' = [pState EXCEPT ![t] = "running"]
          /\ pWorker' = [pWorker EXCEPT ![w] = t]
    /\ UNCHANGED <<pOp, pWindows, pCollapse, pProc, pTasks, pValues, pRet, pPc,
                   exceptPool>>

\* A worker finishes its work item; the result goes to the item's slot.
WorkerFinish(w) ==
    /\ pPc = "map"
    /\ pWorker[w] # 0
    /\ pState' = [pState EXCEPT ![pWorker[w]] = "ok"]
    /\ pValues' = [pValues EXCEPT ![pWorker[w]] =
                      WorkValue(pOp, pTasks[pWorker[w]], pWindows)]
    /\ pWorker' = [pWorker EXCEPT ![w] = 0]
    /\ UNCHANGED <<pOp, pWindows, pCollapse, pProc, pTasks, pRet, pPc, exceptPool>>

\* A worker raises while it processes its work item.
WorkerRaise(w) ==
    /\ pPc = "map"
    /\ pWorker[w] # 0
    /\ pState' = [pState EXCEPT ![pWorker[w]] = "failed"]
    /\ pWorker' = [pWorker EXCEPT ![w] = 0]
    /\ UNCHANGED <<pOp, pWindows, pCollapse, pProc, pTasks, pValues, pRet, pPc,
                   exceptPool>>

\* pool.map returns, the pool is closed and the call returns its result.
MapReturn ==
    /\ pPc = "map"
    /\ pTasks # <<>>
    /\ MapOutcome(pState) = "return"
    /\ pRet' = ReturnValue(pOp, pCollapse, pValues)
    /\ pPc' = "returned"
    /\ UNCHANGED <<pOp, pWindows, pCollapse, pProc, pTasks, pState, pWorker,
                   pValues, exceptPool>>

\* pool.map re-raises a worker's exception: leaving the with block terminates
\* the pool, and the exception leaves the call.
MapRaise ==
    /\ pPc = "map"
    /\ pTasks # <<>>
    /\ MapOutcome(pState) = "raise"
    /\ pPc' = "raised"
    /\ UNCHANGED <<pOp, pWindows, pCollapse, pProc, pTasks, pState, pWorker,
                   pValues, pRet, exceptPool>>

\* No window (no arm): there is nothing to unpack (to concatenate), and the
\* call raises ValueError.
MapNothing ==
    /\ pPc = "map"
    /\ pTasks = <<>>
    /\ pPc' = "raised"
    /\ UNCHANGED <<pOp, pWindows, pCollapse, pProc, pTasks, pState, pWorker,
                   pValues, pRet, exceptPool>>

-----------------------------------------------------------------------------
(* getPairingScore *)

\* The missing value of an integer cell, and the reducers func stands for.
Missing == 0 - 1
Funcs == {"sum", "max"}

\* A row of the regions frame the call works on (supplied, or one per bin
\* with a weight): bin k - 1, anchored at mid.  There is no binID column yet.
RegionRow(k, mid) ==
    [index |-> k - 1, chrom |-> "chr1", start |-> k - 1, end |-> k,
     mid |-> mid, binID |-> Missing]

\* frame.dropna() of the regions: the rows with no missing cell.
DropnaRegions(frame) == SelectSeq(frame, LAMBDA r : r.mid # Missing)

\* regions.index = range(len(regions)); regions["binID"] = range(len(regions))
Renumber(frame) ==
    [x \in 1..Len(frame) |-> [frame[x] EXCEPT !.index = x - 1, !.binID = x - 1]]

\* The cell of `column` in the row of `frame` labelled `label`, as an indexed
\* assignment aligns it; `missing` when no row has the label.
AtLabel(frame, label, column, missing) ==
    IF \E x \in 1..Len(frame) : frame[x].index = label
    THEN (frame[CHOOSE x \in 1..Len(frame) : frame[x].index = label])[column]
    ELSE missing

\* assignRegions(windowsize, binsize, regions["chrom"], regions["mid"], arms):
\* one window per anchor, labelled 0..n-1, with the region cooltools assigns
\* to the anchor (Null when it assigns none).
WindowsOf(regions, assigned) ==
    [x \in 1..Len(regions) |->
        [index |-> x - 1, chrom |-> regions[x].chrom, start |-> regions[x].mid,
         region |-> assigned[regions[x].mid + 1], binID |-> Missing]]

\* windows["binID"] = regions["binID"], aligned on the index labels.
WithBinID(windows, regions) ==
    [x \in 1..Len(windows) |->
        [windows[x] EXCEPT
            !.binID = AtLabel(regions, windows[x].index, "binID", Missing)]]

\* windows.dropna(): the index labels of the rows that stay are kept.
DropnaWindows(windows) ==
    SelectSeq(windows, LAMBDA w : w.region # Null /\ w.binID # Missing)

\* doPileupICCF(clr, windows, collapse=False) when no worker raises.
doPileupICCF(windows) ==
    LET items == WorkItems("doPileupICCF", windows)
    IN  ReturnValue("doPileupICCF", FALSE,
            [t \in 1..Len(items) |->
                WorkValue("doPileupICCF", items[t], windows)]).pile

RECURSIVE MaxSeq(_)
MaxSeq(q) ==
    IF Len(q) = 1 THEN q[1]
    ELSE LET m == MaxSeq(Tail(q)) IN IF Head(q) >= m THEN Head(q) ELSE m

\* func applied to one row of the pile frame.
Apply(func, row) == IF func = "sum" THEN SumSeq(row) ELSE MaxSeq(row)

\* pileFrame.apply(func, axis=1): a series labelled 0..N-1.
Summarize(func, pileFrame) ==
    [x \in 1..Len(pileFrame) |->
        [index |-> x - 1, value |-> Num(Apply(func, pileFrame[x]))]]

\* The pairs (x, y) of a left row x and a right row y with equal binID, in
\* the order of an inner merge: by left row, then by right row.
RECURSIVE Matches(_, _, _)
Matches(left, right, x) ==
    IF x > Len(left) THEN <<>>
    ELSE [y \in 1..Len(SelectSeq(right, LAMBDA w : w.binID = left[x].binID)) |->
             <<left[x], SelectSeq(right, LAMBDA w : w.binID = left[x].binID)[y]>>]
         \o Matches(left, right, x + 1)

\* A faulty variant: the merged rows keep the index labels of the windows.
MergeKeepIndex(regions, windows) ==
    LET pairs == Matches(regions, windows, 1)
    IN  [x \in 1..Len(pairs) |->
            [index |-> pairs[x][2].index,
             chrom |-> pairs[x][1].chrom, start |-> pairs[x][1].start,
             end |-> pairs[x][1].end, mid |-> pairs[x][1].mid,
             binID |-> pairs[x][1].binID,
             start_w |-> pairs[x][2].start, region |-> pairs[x][2].region,
             PairingScore |-> NaN]]

\* pd.merge(regions, windows, on="binID", suffixes=("", "_w")): an inner join;
\* the result is labelled 0..n-1 anew.  There is no PairingScore column yet.
Merge(regions, windows) ==
    LET pairs == Matches(regions, windows, 1)
    IN  [x \in 1..Len(pairs) |->
            [index |-> x - 1,
             chrom |-> pairs[x][1].chrom, start |-> pairs[x][1].start,
             end |-> pairs[x][1].end, mid |-> pairs[x][1].mid,
             binID |-> pairs[x][1].binID,
             start_w |-> pairs[x][2].start, region |-> pairs[x][2].region,
             PairingScore |-> NaN]]

\* output.dropna() after the merge.
DropnaOutput(frame) ==
    SelectSeq(frame, LAMBDA r : r.mid # Missing /\ r.binID # Missing
                                /\ r.region # Null)

\* output["PairingScore"] = summarized, aligned on the index labels.
WithScore(output, summarized) ==
    [x \in 1..Len(output) |->
        [output[x] EXCEPT
            !.PairingScore = AtLabel(summarized, output[x].index, "value", NaN)]]

\* Twice np.median of the scores of output.dropna(): twice the middle score,
\* or the sum of the two middle scores.
Median2(output) ==
    LET scored == SelectSeq(output, LAMBDA r : r.PairingScore.kind = "num")
        v == [x \in 1..Len(scored) |-> scored[x].PairingScore.val]
        n == Len(v)
    IN  IF n % 2 = 1 THEN 2 * KthSmallest(v, (n + 1) \div 2)
        ELSE KthSmallest(v, n \div 2) + KthSmallest(v, (n \div 2) + 1)

\* output["PairingScore"] - np.median(...): kept exact as a ratio over 2; a
\* missing score stays missing.
Normalize(output) ==
    [x \in 1..Len(output) |->
        [output[x] EXCEPT
            !.PairingScore =
                IF @.kind = "num" /\ \E y \in 1..Len(output) :
                                        output[y].PairingScore.kind = "num"
                THEN Ratio(2 * @.val - Median2(output), 2)
                ELSE NaN]]

\* output[["chrom", "start", "end", "PairingScore"]]
Columns4(output) ==
    [x \in 1..Len(output) |->
        [index |-> output[x].index, chrom |-> output[x].chrom,
         start |-> output[x].start, end |-> output[x].end,
         PairingScore |-> output[x].PairingScore]]

ScoreIdle ==
    /\ gInput = <<>>
    /\ gRegions = <<>>
    /\ gAssigned = <<>>
    /\ gFunc = "idle"
    /\ gNorm = FALSE
    /\ gWindows = <<>>
    /\ gSummary = <<>>
    /\ gOutput = <<>>
    /\ gPc = "idle"

ScoreInit ==
    /\ \E n \in 1..MaxRegions :
         /\ \E present \in [1..n -> BOOLEAN] :
               gInput = [k \in 1..n |->
                           RegionRow(k, IF present[k] THEN k - 1 ELSE Missing)]
         /\ gAssigned \in [1..n -> ArmNames \cup {Null}]
    /\ gRegions = gInput
    /\ gFunc \in Funcs
    /\ gNorm \in BOOLEAN
    /\ gWindows = <<>>
    /\ gSummary = <<>>
    /\ gOutput = <<>>
    /\ gPc = "regions"

\* Lines 282-285: drop the rows with missing cells, renumber, add binID.
ScoreRegions ==
    /\ gPc = "regions"
    /\ gRegions' = Renumber(DropnaRegions(gRegions))
    /\ gPc' = "windows"
    /\ UNCHANGED <<gInput, gAssigned, gFunc, gNorm, gWindows, gSummary, gOutput,
                   exceptScore>>

\* Lines 287-293: the windows, their binID, and the drop of the unassigned.
ScoreWindows ==
    /\ gPc = "windows"
    /\ gWindows' = DropnaWindows(WithBinID(WindowsOf(gRegions, gAssigned), gRegions))
    /\ gPc' = "pile"
    /\ UNCHANGED <<gInput, gRegions, gAssigned, gFunc, gNorm, gSummary, gOutput,
                   exceptScore>>

\* Lines 295-299: the pileup, the pile frame and func over its rows.
ScorePile ==
    /\ gPc = "pile"
    /\ gWindows # <<>>
    /\ gSummary' = Summarize(gFunc, pileToFrame(doPileupICCF(gWindows)))
    /\ gPc' = "merge"
    /\ UNCHANGED <<gInput, gRegions, gAssigned, gFunc, gNorm, gWindows, gOutput,
                   exceptScore>>

\* Line 295 with no window left: the pileup raises ValueError.
ScorePileRaises ==
    /\ gPc = "pile"
    /\ gWindows = <<>>
    /\ gPc' = "raised"
    /\ UNCHANGED <<gInput, gRegions, gAssigned, gFunc, gNorm, gWindows, gSummary,
                   gOutput, exceptScore>>

\* Line 301: the regions that were assigned windows.
ScoreMerge ==
    /\ gPc = "merge"
    /\ gOutput' = DropnaOutput(Merge(gRegions, gWindows))
    /\ gPc' = "assign"
    /\ UNCHANGED <<gInput, gRegions, gAssigned, gFunc, gNorm, gWindows, gSummary,
                   exceptScore>>

\* Line 303: the scores are added.
ScoreAssign ==
    /\ gPc = "assign"
    /\ gOutput' = WithScore(gOutput, gSummary)
    /\ gPc' = "norm"
    /\ UNCHANGED <<gInput, gRegions, gAssigned, gFunc, gNorm, gWindows, gSummary,
                   exceptScore>>

\* Lines 305-307: the normalisation by the median, and the return.
ScoreReturn ==
    /\ gPc = "norm"
    /\ gOutput' = Columns4(IF gNorm THEN Normalize(gOutput) ELSE gOutput)
    /\ gPc' = "done"
    /\ UNCHANGED <<gInput, gRegions, gAssigned, gFunc, gNorm, gWindows, gSummary,
                   exceptScore>>

-----------------------------------------------------------------------------
(* Specifications. *)

InitFrame ==
    FrameInit /\ DiamondIdle /\ DownIdle /\ RegionIdle /\ PoolIdle /\ ScoreIdle

SpecFrame ==
    /\ InitFrame
    /\ [][PileToFrame]_vars

NextDiamond == DiamondStep \/ DiamondReturn

InitDiamond ==
    DiamondInit /\ FrameIdle /\ DownIdle /\ RegionIdle /\ PoolIdle /\ ScoreIdle

SpecDiamond ==
    /\ InitDiamond
    /\ [][NextDiamond]_vars

NextDown == DownFilter \/ DownMin \/ DownMinRaises \/ DownSample \/ DownReturn

InitDown ==
    DownInit /\ FrameIdle /\ DiamondIdle /\ RegionIdle /\ PoolIdle /\ ScoreIdle

SpecDown ==
    /\ InitDown
    /\ [][NextDown]_vars

InitRegion ==
    RegionInit /\ FrameIdle /\ DiamondIdle /\ DownIdle /\ PoolIdle /\ ScoreIdle

SpecRegion ==
    /\ InitRegion
    /\ [][AssignRegions2d]_vars

NextPool ==
    \/ \E w \in 1..pProc : WorkerStart(w)
    \/ \E w \in 1..pProc : WorkerFinish(w)
    \/ \E w \in 1..pProc : WorkerRaise(w)
    \/ MapReturn
    \/ MapRaise
    \/ MapNothing

InitPool ==
    PoolInit /\ FrameIdle /\ DiamondIdle /\ DownIdle /\ RegionIdle /\ ScoreIdle

SpecPool ==
    /\ InitPool
    /\ [][NextPool]_vars

NextScore ==
    \/ ScoreRegions
    \/ ScoreWindows
    \/ ScorePile
    \/ ScorePileRaises
    \/ ScoreMerge
    \/ ScoreAssign
    \/ ScoreReturn

InitScore ==
    ScoreInit /\ FrameIdle /\ DiamondIdle /\ DownIdle /\ RegionIdle /\ PoolIdle

SpecScore ==
    /\ InitScore
    /\ [][NextScore]_vars

-----------------------------------------------------------------------------
(* Properties. *)

\* table.transpose().values.reshape(W, W, N): the frame turned back into a pile.
ReshapeBack(table, w, n) ==
    LET flat == [x \in 1..(w * w * n) |->
                    table[((x - 1) % n) + 1][((x - 1) \div n) + 1]]
    IN  [i \in 1..w |-> [j \in 1..w |-> [k \in 1..n |->
            flat[(i - 1) * w * n + (j - 1) * n + k]]]]

\* C5: pileToFrame of a pile of shape [W, W, N] has N rows and W*W columns,
\* table[k][i*W + j] = pile[i][j][k] for all i, j < W and k < N (0-based), and
\* reshaping the table back with W and N gives the pile again.
C5_FrameIsRowMajorFlatten ==
    fPc = "done" =>
        LET w == Len(fPile)
            n == Len(fPile[1][1])
        IN  /\ Len(fTable) = n
            /\ \A k \in 0..(n - 1) : Len(fTable[k + 1]) = w * w
            /\ \A i \in 0..(w - 1), j \in 0..(w - 1), k \in 0..(n - 1) :
                   fTable[k + 1][i * w + j + 1] = fPile[i + 1][j + 1][k + 1]
            /\ ReshapeBack(fTable, w, n) = fPile

\* A pile of two or more windows of side two whose pixel (0, 1) of window 1 is
\* marked has been reshaped.
C5_Witness ==
    /\ fPc = "done"
    /\ Len(fPile) = 2
    /\ Len(fPile[1][1]) >= 2
    /\ fPile[1][2][2] # 0
    /\ fTable[2][2] # 0

\* The mean of the cells of `cells` of a that are neither NaN nor Infinity;
\* NaN when there is no such cell.
FiniteMean(a, cells) ==
    LET finite == {c \in cells : a[c[1] + 1][c[2] + 1].kind = "num"}
    IN  IF finite = {} THEN NaN
        ELSE Ratio(SumCells(a, finite), Cardinality(finite))

\* The (h + 1) x (h + 1) square with top-left corner (i, i), 0-based.
Square(i, h) == (i..(i + h)) \X (i..(i + h))

\* C7: for a square matrix with R rows and half = sideLen div 2 < R, both
\* returned sequences have length R - half, value[i] is the mean of the cells
\* of the square at (i, i) of the caller's matrix that are neither NaN nor
\* Infinity, and the offsets are symmetric around 0 (they sum to 0).
C7_DiamondValuesAndOffsets ==
    (dPc = "done" /\ halfWindow < Len(dOrig)) =>
        LET n == Len(dOrig) - halfWindow
        IN  /\ Len(dRet.offsets) = n
            /\ Len(dRet.values) = n
            /\ \A i \in 0..(n - 1) :
                   dRet.values[i + 1] = FiniteMean(dOrig, Square(i, halfWindow))
            /\ SumSeq(dRet.offsets) = 0
            /\ \A x \in 1..n : dRet.offsets[x] = 0 - dRet.offsets[n + 1 - x]

\* A scan of two or more positions with a window wider than one cell has
\* returned, over a matrix holding an Infinity cell on its diagonal band, and
\* some value is a mean of finite cells.
C7_Witness ==
    /\ dPc = "done"
    /\ halfWindow >= 1
    /\ Len(dRet.values) >= 2
    /\ \E c \in Square(0, halfWindow) : isinf(dOrig[c[1] + 1][c[2] + 1])
    /\ \E x \in 1..Len(dRet.values) : dRet.values[x].kind = "ratio"

\* C9: the operations consume their inputs read-only: after slidingDiamond
\* returns every cell of the caller's matrix holds the value it held before
\* the call, and after downSamplePairs returns every input table has the
\* columns and rows it had before the call.
C9_InputsReadOnly ==
    /\ dPc = "done" => dArray = dOrig
    /\ sPc = "done" => sDict = sOrig

\* The identity of a row within one sample: the table it came from, as
\* tagged, and its index label there.
RowId(row) == <<row.rType, row.idx>>

\* The rows of a sample of the caller's dictionary that the code's distance
\* filter keeps, each tagged with the table it is in.
FilteredInput(sample) ==
    DistanceFilter(Concat(SetRType(sOrig[sample]["cis"], "cis"),
                          SetRType(sOrig[sample]["trans"], "trans")),
                   sDistance).rows

\* C3: with minReads the minimum over the samples of the number of rows that
\* pass the distance filter, every sample's output holds |cis| + |trans| =
\* minReads rows, they are distinct rows of that sample's filtered input, the
\* cis table holds only rows tagged cis and the trans table only rows tagged
\* trans.
C3_DownsampledToMinimum ==
    sPc = "done" =>
        LET minReads ==
                CHOOSE m \in {Len(FilteredInput(k)) : k \in DOMAIN sOrig} :
                    \A k \in DOMAIN sOrig : m <= Len(FilteredInput(k))
        IN  \A k \in DOMAIN sOrig :
               LET cis == sOut[k]["cis"].rows
                   trans == sOut[k]["trans"].rows
                   both == cis \o trans
               IN  /\ DOMAIN sOut[k] = {"cis", "trans"}
                   /\ Len(cis) + Len(trans) = minReads
                   /\ \A x, y \in 1..Len(both) :
                          x # y => RowId(both[x]) # RowId(both[y])
                   /\ \A x \in 1..Len(both) :
                          both[x] \in SeqRange(FilteredInput(k))
                   /\ \A x \in 1..Len(cis) : cis[x].rType = "cis"
                   /\ \A x \in 1..Len(trans) : trans[x].rType = "trans"

\* Two samples were downsampled to one row or more, and one of them, whose
\* filtered input held a cis and a trans row, lost a row to the draw and
\* kept a trans row.
C3_Witness ==
    /\ sPc = "done"
    /\ Cardinality(DOMAIN sOrig) = 2
    /\ sMinReads >= 1
    /\ \E k \in DOMAIN sOrig :
          /\ Len(FilteredInput(k)) > sMinReads
          /\ \E x \in 1..Len(FilteredInput(k)) : FilteredInput(k)[x].rType = "cis"
          /\ Len(sOut[k]["trans"].rows) >= 1

\* C4: the distance filter keeps exactly the read pairs with
\* |pos2 - pos1| > minDistance, cis and trans alike, whichever of pos1 and
\* pos2 is larger.
C4_FilterKeepsAbsoluteDistance ==
    \A k \in DOMAIN sOut :
        "all" \in DOMAIN sOut[k] =>
            LET tagged == Concat(SetRType(sOrig[k]["cis"], "cis"),
                                 SetRType(sOrig[k]["trans"], "trans")).rows
            IN  sOut[k]["all"].rows =
                    SelectSeq(tagged, LAMBDA r : PassesAbs(r, sDistance))

\* C8: when minReads is 0 downSamplePairs reports an error to the caller
\* instead of returning empty cis / trans tables for every sample.
C8_ZeroMinimumIsReported ==
    sMinReads = 0 => sPc # "done"

\* C6: assignRegions2d pairs row i of the first window set with row i of the
\* second and returns the pair if and only if both windows have a region and
\* the two regions are equal; no returned row has region1 # region2, and a
\* pair with a missing region, missing-missing included, is not returned.
C6_OnlySameRegionPairs ==
    rPc = "done" =>
        /\ \A x \in 1..Len(rRet) :
               LET i == rRet[x].index + 1
               IN  /\ i <= Len(rWindows1) /\ i <= Len(rWindows2)
                   /\ rWindows1[i].region # Null
                   /\ rWindows1[i].region = rWindows2[i].region
                   /\ rRet[x] = [index |-> i - 1,
                                 chrom1 |-> rWindows1[i].chrom,
                                 start1 |-> rWindows1[i].start,
                                 end1 |-> rWindows1[i].end,
                                 chrom2 |-> rWindows2[i].chrom,
                                 start2 |-> rWindows2[i].start,
                                 end2 |-> rWindows2[i].end,
                                 region |-> rWindows1[i].region]
        /\ \A i \in 1..Len(rWindows1) :
               (/\ i <= Len(rWindows2)
                /\ rWindows1[i].region # Null
                /\ rWindows1[i].region = rWindows2[i].region)
               => \E x \in 1..Len(rRet) : rRet[x].index = i - 1
        /\ \A x, y \in 1..Len(rRet) : x < y => rRet[x].index < rRet[y].index

\* Two pairs were given, the first missing-missing and the second in one
\* region, and only the second was returned.
C6_Witness ==
    /\ rPc = "done"
    /\ Len(rWindows1) >= 2 /\ Len(rWindows2) >= 2
    /\ rWindows1[1].region = Null /\ rWindows2[1].region = Null
    /\ rWindows1[2].region = "p" /\ rWindows2[2].region = "p"
    /\ rWindows1[2].start # rWindows2[2].start
    /\ Len(rRet) >= 1 /\ rRet[1].index = 1

\* pile[:, :, k], 0-based k.
Slice2(pile, k) ==
    [i \in 1..Len(pile) |-> [j \in 1..Len(pile[i]) |-> pile[i][j][k + 1]]]

Pileups == {"doPileupObsExp", "doPileupICCF"}

C2_FailureAbortsTheCall ==
    /\ pPc = "returned" => \A t \in 1..Len(pState) : pState[t] = "ok"
    /\ pPc = "returned" => pRet # NoReturn
    /\ pPc # "returned" => pRet = NoReturn
    /\ (/\ pPc \in {"returned", "raised"}
        /\ \E t \in 1..Len(pState) : pState[t] = "failed")
       => pPc = "raised" /\ pRet = NoReturn

\* The call has raised after one partition succeeded and another one failed.
C2_Witness ==
    /\ pPc = "raised"
    /\ \E t \in 1..Len(pState) : pState[t] = "ok"
    /\ \E t \in 1..Len(pState) : pState[t] = "failed"
    /\ pRet = NoReturn

\* The rows of the input whose anchor is present and whose window was
\* assigned a region: the regions whose window is kept.
KeptRegions ==
    {k \in 1..Len(gInput) : gInput[k].mid # Missing /\ gAssigned[k] # Null}

\* matrix.flatten() of a 2-d array, row after row.
Flatten2(m) ==
    [x \in 1..(Len(m) * Len(m[1])) |->
        m[((x - 1) \div Len(m[1])) + 1][((x - 1) % Len(m[1])) + 1]]

\* func over the flattened sub-matrix of the window of input row k.
ScoreOf(k) ==
    Num(Apply(gFunc, Flatten2(Snip("doPileupICCF", [start |-> gInput[k].mid]))))

\* C10: whatever subset of the regions fails arm assignment, every row of the
\* output is a region whose window was kept and carries, before the median
\* normalisation, func of the flattened pile slice of that region's window;
\* and every region whose window was kept is in the output with its score.
C10_ScoresStayWithTheirRegion ==
    gPc = "norm" =>
        /\ \A x \in 1..Len(gOutput) :
               \E k \in KeptRegions :
                  /\ gOutput[x].chrom = gInput[k].chrom
                  /\ gOutput[x].start = gInput[k].start
                  /\ gOutput[x].end = gInput[k].end
                  /\ gOutput[x].PairingScore = ScoreOf(k)
        /\ \A k \in KeptRegions :
               \E x \in 1..Len(gOutput) :
                  /\ gOutput[x].start = gInput[k].start
                  /\ gOutput[x].PairingScore = ScoreOf(k)

\* Scores were added after the window of the first region was dropped and the
\* windows of two later regions were kept, in two different arms.
C10_Witness ==
    /\ gPc = "norm"
    /\ Len(gInput) >= 3
    /\ 1 \notin KeptRegions
    /\ 2 \in KeptRegions /\ 3 \in KeptRegions
    /\ gInput[1].mid # Missing
    /\ gAssigned[2] # gAssigned[3]
    /\ Len(gOutput) = 2

====
